---- MODULE Spec2Model ----
(***************************************************************************)
(* SklearnCompositionalGPModel (autostat/sklearn/model_wrapper.py): the    *)
(* model object that owns a GP regressor, two lazily populated prediction  *)
(* caches and the scoring routines built on them.                          *)
(*                                                                         *)
(* Numbers.  The program's floats are modelled as exact reals of the form  *)
(*   q + l2*ln 2 + l3*ln 3 + l5*ln 5 + lpi*ln(2*pi)                         *)
(* with rational coefficients (records of normalised fractions <<n, d>>).  *)
(* sqrt and ln are computed on the values where they are exact in this     *)
(* form; floating-point rounding is not modelled, so "equal" below means   *)
(* equal as real numbers.                                                  *)
(***************************************************************************)
EXTENDS Integers, Sequences, FiniteSets, TLC

--------------------------------------------------------------------------
(* Bounds of the model. *)

\* kernel_spec.num_params() ranges over 1..MaxParams
MaxParams == 2
\* train_x has 1..MaxN rows
MaxN == 2

\* Optional values: None, or Some(v) holding v
None == <<>>
Some(v) == <<v>>
Get(o) == o[1]

--------------------------------------------------------------------------
(* Exact rational arithmetic: <<n, d>> with d > 0 and gcd(n, d) = 1. *)

Abs(n) == IF n < 0 THEN -n ELSE n

RECURSIVE Gcd(_, _)
Gcd(a, b) == IF b = 0 THEN a ELSE Gcd(b, a % b)

RNorm(n, d) ==
    LET s == IF d < 0 THEN -1 ELSE 1
        g == Gcd(Abs(n), Abs(d))
    IN  <<(s * n) \div g, (s * d) \div g>>

R(n) == <<n, 1>>
RAdd(a, b) == RNorm(a[1] * b[2] + b[1] * a[2], a[2] * b[2])
RNeg(a) == <<-a[1], a[2]>>
RSub(a, b) == RAdd(a, RNeg(b))
RMul(a, b) == RNorm(a[1] * b[1], a[2] * b[2])
RDiv(a, b) == RNorm(a[1] * b[2], a[2] * b[1])
RLess(a, b) == a[1] * b[2] < b[1] * a[2]
RPos(a) == a[1] > 0

IsSquare(n) == \E s \in 0..n : s * s = n
IntSqrt(n) == CHOOSE s \in 0..n : s * s = n
\* the square root of a rational whose numerator and denominator are squares
RSqrt(a) == <<IntSqrt(a[1]), IntSqrt(a[2])>>

RECURSIVE RSum(_, _)
\* sum of f[1..k]
RSum(f, k) == IF k = 0 THEN R(0) ELSE RAdd(RSum(f, k - 1), f[k])

--------------------------------------------------------------------------
(* Reals with logarithms: q + l2 ln2 + l3 ln3 + l5 ln5 + lpi ln(2 pi). *)

Real(q) == [q |-> q, l2 |-> R(0), l3 |-> R(0), l5 |-> R(0), lpi |-> R(0)]

RealAdd(a, b) ==
    [q |-> RAdd(a.q, b.q), l2 |-> RAdd(a.l2, b.l2), l3 |-> RAdd(a.l3, b.l3),
     l5 |-> RAdd(a.l5, b.l5), lpi |-> RAdd(a.lpi, b.lpi)]

\* c * a for a rational c
RealScale(c, a) ==
    [q |-> RMul(c, a.q), l2 |-> RMul(c, a.l2), l3 |-> RMul(c, a.l3),
     l5 |-> RMul(c, a.l5), lpi |-> RMul(c, a.lpi)]

RealSub(a, b) == RealAdd(a, RealScale(R(-1), b))

RECURSIVE RealSum(_, _)
RealSum(f, k) == IF k = 0 THEN Real(R(0)) ELSE RealAdd(RealSum(f, k - 1), f[k])

RECURSIVE Val(_, _)
\* the exponent of prime p in n >= 1
Val(p, n) == IF n % p = 0 THEN 1 + Val(p, n \div p) ELSE 0

\* np.log of a positive rational whose prime factors are 2, 3 and 5
Ln(a) ==
    [q |-> R(0),
     l2 |-> R(Val(2, a[1]) - Val(2, a[2])),
     l3 |-> R(Val(3, a[1]) - Val(3, a[2])),
     l5 |-> R(Val(5, a[1]) - Val(5, a[2])),
     lpi |-> R(0)]

\* np.log(2 * np.pi)
Ln2Pi == [q |-> R(0), l2 |-> R(0), l3 |-> R(0), l5 |-> R(0), lpi |-> R(1)]

--------------------------------------------------------------------------
(* Vectors and matrices of rationals: sequences, and sequences of rows. *)

Dot(u, v) == RSum([k \in 1..Len(u) |-> RMul(u[k], v[k])], Len(u))

\* np.diag(cov)
Diag(A) == [i \in 1..Len(A) |-> A[i][i]]

\* A.T
Transpose(A) == [i \in 1..Len(A) |-> [j \in 1..Len(A) |-> A[j][i]]]

\* A @ B for square matrices of one size
MatMul(A, B) ==
    [i \in 1..Len(A) |-> [j \in 1..Len(A) |->
        RSum([k \in 1..Len(A) |-> RMul(A[i][k], B[k][j])], Len(A))]]

\* Y.T @ S @ Y for a column vector Y
QuadForm(Y, S) ==
    RSum([i \in 1..Len(Y) |-> RMul(Y[i], Dot(S[i], Y))], Len(Y))

RECURSIVE CholRows(_, _)
\* Rows 1..i of the lower-triangular factor L of A (A = L L^T), row by row:
\*   L[i][j] = (A[i][j] - sum_{k<j} L[i][k] L[j][k]) / L[j][j]   for j < i
\*   L[i][i] = sqrt(A[i][i] - sum_{k<i} L[i][k]^2)
\* ok is FALSE when a pivot is not positive (numpy raises LinAlgError).
CholRows(A, i) ==
    IF i = 0 THEN [ok |-> TRUE, L |-> <<>>]
    ELSE
      LET prev == CholRows(A, i - 1) IN
      IF ~prev.ok THEN prev
      ELSE
        LET RECURSIVE Left(_)
            Left(j) ==
              IF j = 0 THEN <<>>
              ELSE LET r == Left(j - 1)
                       s == RSum([k \in 1..(j - 1) |-> RMul(r[k], prev.L[j][k])], j - 1)
                   IN  Append(r, RDiv(RSub(A[i][j], s), prev.L[j][j]))
            left == Left(i - 1)
            d == RSub(A[i][i], RSum([k \in 1..(i - 1) |-> RMul(left[k], left[k])], i - 1))
        IN  IF ~RPos(d) THEN [ok |-> FALSE, L |-> <<>>]
            ELSE [ok |-> TRUE,
                  L |-> Append(prev.L,
                          [j \in 1..Len(A) |->
                              IF j < i THEN left[j]
                              ELSE IF j = i THEN RSqrt(d) ELSE R(0)])]

\* np.linalg.cholesky(cov)
Cholesky(A) == CholRows(A, Len(A))

RECURSIVE InvRows(_, _)
\* Rows 1..i of the inverse of a lower-triangular L, by forward substitution:
\*   X[i][i] = 1 / L[i][i],  X[i][j] = -(sum_{j<=k<i} L[i][k] X[k][j]) / L[i][i]
InvRows(L, i) ==
    IF i = 0 THEN <<>>
    ELSE
      LET prev == InvRows(L, i - 1) IN
      Append(prev,
        [j \in 1..Len(L) |->
            IF j > i THEN R(0)
            ELSE IF j = i THEN RDiv(R(1), L[i][i])
            ELSE RDiv(RNeg(RSum([k \in 1..(i - 1) |->
                        IF k < j THEN R(0) ELSE RMul(L[i][k], prev[k][j])], i - 1)),
                      L[i][i])])

\* np.linalg.inv of a lower-triangular matrix
Inv(L) == InvRows(L, Len(L))

\* np.linalg.slogdet(L)[1] for a triangular L: ln |det L| = ln |prod_i L[i][i]|
LogAbsDet(L) ==
    LET RECURSIVE Prod(_)
        Prod(i) == IF i = 0 THEN R(1) ELSE RMul(Prod(i - 1), L[i][i])
        det == Prod(Len(L))
    IN  Ln(<<Abs(det[1]), det[2]>>)

--------------------------------------------------------------------------
(* Collaborators: kernel specs, the kernel builder and translator, calc_bic. *)

\* KernelSpec.num_params()
num_params(spec) == spec.num_params

\* build_kernel(kernel_spec): the kernel object handed to the regressor,
\* carrying the spec's initial hyperparameters
build_kernel(spec) ==
    [kind |-> "kernel", n_dims |-> spec.num_params, theta |-> spec.theta]

\* to_kernel_spec(kernel): the structured spec of a kernel object
to_kernel_spec(kernel) ==
    [kind |-> "spec", num_params |-> kernel.n_dims, theta |-> kernel.theta]

\* calc_bic(num_params, n_obs, log_likelihood) = k ln(n) - 2 log_likelihood
calc_bic(k, n, ll) ==
    RealSub(RealScale(R(k), Ln(R(n))), RealScale(R(2), ll))

--------------------------------------------------------------------------
(* The GP engine (sklearn's GaussianProcessRegressor).  Input rows are     *)
(* points 1..3; hyperparameter vector 0 is the one build_kernel starts     *)
(* from, 1 and 2 are optima the optimizer can end on.  Covariances are     *)
(* Gram matrices of integer feature vectors, so they are positive          *)
(* semidefinite, and singular when a point is repeated.                    *)

Points == {1, 2, 3}
InitialTheta == 0
Thetas == {1, 2}

\* the factor F with k(p, q) = F[p] . F[q] under hyperparameters theta;
\* theta = 1 gives a diagonal covariance
Features(theta) ==
    IF theta = 0 THEN << <<5, 0, 0>>, <<3, 4, 0>>, <<0, 3, 4>> >>
    ELSE IF theta = 1 THEN << <<1, 0, 0>>, <<0, 2, 0>>, <<0, 0, 4>> >>
    ELSE << <<1, 0, 0>>, <<3, 4, 0>>, <<0, 0, 2>> >>

EngineCov(theta, p, q) ==
    LET f == Features(theta)
    IN  R(f[p][1] * f[q][1] + f[p][2] * f[q][2] + f[p][3] * f[q][3])

\* the posterior mean at point p; the prior mean of an unfitted engine is 0
EngineMean(theta, p) ==
    IF theta = 0 THEN R(0)
    ELSE IF theta = 1 THEN R(<<1, 3, 2>>[p])
    ELSE R(<<2, 0, 1>>[p])

\* GaussianProcessRegressor(kernel=kernel, ...): kernel_ exists only after fit
NewEngine(kernel) == [kernel |-> kernel, kernel_ |-> None]

\* gp.fit(X, y): kernel_ holds the optimized hyperparameters theta
EngineFit(gp, theta) == [gp EXCEPT !.kernel_ = Some([gp.kernel EXCEPT !.theta = theta])]

\* the kernel gp.predict uses: kernel_ once fitted, else the prior's kernel
EngineKernel(gp) == IF gp.kernel_ = None THEN gp.kernel ELSE Get(gp.kernel_)

\* gp.predict(x, return_std=False, return_cov=True)
EnginePredict(gp, x) ==
    LET t == EngineKernel(gp).theta
    IN  [y_mean |-> [i \in 1..Len(x) |-> EngineMean(t, x[i])],
         y_cov |-> [i \in 1..Len(x) |-> [j \in 1..Len(x) |-> EngineCov(t, x[i], x[j])]]]

\* gp.log_marginal_likelihood(theta)
EngineLML(gp, theta) ==
    IF theta = 1 THEN Real(<<-3, 2>>) ELSE Real(<<-7, 1>>)

--------------------------------------------------------------------------
(* SklearnCompositionalGPModel.  A method is an operator from the object   *)
(* to [status, value, self, invoked]: how the call ended ("ok" or the      *)
(* exception raised), what it returned, the object afterwards, and the     *)
(* modes for which _predict_cached ran _predict during the call.           *)

Ok(self, v, inv) == [status |-> "ok", value |-> Some(v), self |-> self, invoked |-> inv]
Raise(self, e, inv) == [status |-> e, value |-> None, self |-> self, invoked |-> inv]

\* __init__
Construct(spec, dataset, settings) ==
    [kernel_spec |-> spec, data |-> dataset, run_settings |-> settings,
     gp |-> NewEngine(build_kernel(spec)),
     training_predictions |-> None, test_predictions |-> None]

\* fit dropping the cached predictions
fit_clearing_caches(self, theta) ==
    [status |-> "ok", value |-> None,
     self |-> [self EXCEPT !.gp = EngineFit(self.gp, theta),
                           !.training_predictions = None,
                           !.test_predictions = None],
     invoked |-> {}]

\* fit, with theta the optimum the engine's optimizer ends on
fit(self, theta) ==
    [status |-> "ok", value |-> None,
     self |-> [self EXCEPT !.gp = EngineFit(self.gp, theta)], invoked |-> {}]

log_likelihood(self) ==
    IF self.gp.kernel_ = None THEN Raise(self, "AttributeError", {})
    ELSE Ok(self, EngineLML(self.gp, Get(self.gp.kernel_).theta), {})

\* bic with num_params and the number of rows exchanged
bic_swapped_args(self) ==
    LET ll == log_likelihood(self)
    IN  IF ll.status # "ok" THEN ll
        ELSE Ok(self, calc_bic(Len(self.data.train_x),
                               num_params(self.kernel_spec), Get(ll.value)), {})

bic(self) ==
    LET ll == log_likelihood(self)
    IN  IF ll.status # "ok" THEN ll
        ELSE Ok(self, calc_bic(num_params(self.kernel_spec),
                               Len(self.data.train_x), Get(ll.value)), {})

\* _predict with the variances in place of the standard deviations
_predict_no_sqrt(self, x) ==
    LET p == EnginePredict(self.gp, x)
    IN  [mean |-> p.y_mean, std |-> Diag(p.y_cov), cov |-> p.y_cov]

_predict(self, x) ==
    LET p == EnginePredict(self.gp, x)
        d == Diag(p.y_cov)
    IN  [mean |-> p.y_mean, std |-> [i \in 1..Len(d) |-> RSqrt(d[i])], cov |-> p.y_cov]

predict(self, x) == Ok(self, _predict(self, x), {})

\* _predict_cached without the store of the test-mode result
_predict_cached_no_store(self, train) ==
    IF train THEN
        IF self.training_predictions = None THEN
            LET p == _predict(self, self.data.train_x)
            IN  Ok([self EXCEPT !.training_predictions = Some(p)], p, {"train"})
        ELSE Ok(self, Get(self.training_predictions), {})
    ELSE IF self.data.test_x # None THEN
        Ok(self, _predict(self, Get(self.data.test_x)), {"test"})
    ELSE Raise(self, "ValueError", {})

\* _predict_cached falling back to the training data when test_x is absent
_predict_cached_fallback(self, train) ==
    IF train \/ self.data.test_x = None THEN
        IF self.training_predictions = None THEN
            LET p == _predict(self, self.data.train_x)
            IN  Ok([self EXCEPT !.training_predictions = Some(p)], p, {"train"})
        ELSE Ok(self, Get(self.training_predictions), {})
    ELSE
        IF self.test_predictions = None THEN
            LET p == _predict(self, Get(self.data.test_x))
            IN  Ok([self EXCEPT !.test_predictions = Some(p)], p, {"test"})
        ELSE Ok(self, Get(self.test_predictions), {})

\* _predict_cached storing the test-mode result in the training slot
_predict_cached_wrong_slot(self, train) ==
    IF train THEN
        IF self.training_predictions = None THEN
            LET p == _predict(self, self.data.train_x)
            IN  Ok([self EXCEPT !.training_predictions = Some(p)], p, {"train"})
        ELSE Ok(self, Get(self.training_predictions), {})
    ELSE IF self.data.test_x # None THEN
        IF self.test_predictions = None THEN
            LET p == _predict(self, Get(self.data.test_x))
            IN  Ok([self EXCEPT !.training_predictions = Some(p)], p, {"test"})
        ELSE Ok(self, Get(self.test_predictions), {})
    ELSE Raise(self, "ValueError", {})

_predict_cached(self, train) ==
    IF train THEN
        IF self.training_predictions = None THEN
            LET p == _predict(self, self.data.train_x)
            IN  Ok([self EXCEPT !.training_predictions = Some(p)], p, {"train"})
        ELSE Ok(self, Get(self.training_predictions), {})
    ELSE IF self.data.test_x # None THEN
        IF self.test_predictions = None THEN
            LET p == _predict(self, Get(self.data.test_x))
            IN  Ok([self EXCEPT !.test_predictions = Some(p)], p, {"test"})
        ELSE Ok(self, Get(self.test_predictions), {})
    ELSE Raise(self, "ValueError", {})

predict_train(self) == _predict_cached(self, TRUE)

predict_test(self) == _predict_cached(self, FALSE)

\* residuals subtracting in place, through a view of the cached mean
residuals_in_place(self) ==
    LET r == predict_train(self)
        yHat == Get(r.value).mean
        train_y == self.data.train_y
        res == [i \in 1..Len(train_y) |-> RSub(train_y[i], yHat[i])]
    IN  Ok([r.self EXCEPT !.training_predictions =
                Some([Get(r.self.training_predictions) EXCEPT !.mean = res])],
           res, r.invoked)

residuals(self) ==
    LET r == predict_train(self)
        yHat == Get(r.value).mean
        train_y == self.data.train_y
    IN  Ok(r.self, [i \in 1..Len(train_y) |-> RSub(train_y[i], yHat[i])], r.invoked)

to_spec(self) ==
    IF self.gp.kernel_ = None THEN Raise(self, "AttributeError", {})
    ELSE Ok(self, to_kernel_spec(Get(self.gp.kernel_)), {})

\* log_likelihood_test with log det K = log det L (the factor 2 left out)
log_likelihood_test_single_logdet(self) ==
    LET r == predict_test(self) IN
    IF r.status # "ok" THEN r
    ELSE IF self.data.test_y = None THEN Raise(r.self, "ValueError", r.invoked)
    ELSE
      LET y_pred == Get(r.value).mean
          cov == Get(r.value).cov
          y_test == Get(self.data.test_y)
          Y == [i \in 1..Len(y_pred) |-> RSub(y_pred[i], y_test[i])]
          N == Len(y_pred)
          chol == Cholesky(cov)
      IN  IF ~chol.ok THEN Raise(r.self, "LinAlgError", r.invoked)
          ELSE
            LET L_inv == Inv(chol.L)
                Sigma_inv == MatMul(Transpose(L_inv), L_inv)
                log_det_K == LogAbsDet(chol.L)
            IN  Ok(r.self,
                   RealScale(<<-1, 2>>,
                       RealAdd(RealAdd(Real(QuadForm(Y, Sigma_inv)), log_det_K),
                               RealScale(R(N), Ln2Pi))),
                   r.invoked)

log_likelihood_test(self) ==
    LET r == predict_test(self) IN
    IF r.status # "ok" THEN r
    ELSE IF self.data.test_y = None THEN Raise(r.self, "ValueError", r.invoked)
    ELSE
      LET y_pred == Get(r.value).mean
          cov == Get(r.value).cov
          y_test == Get(self.data.test_y)
          Y == [i \in 1..Len(y_pred) |-> RSub(y_pred[i], y_test[i])]
          N == Len(y_pred)
          chol == Cholesky(cov)
      IN  IF ~chol.ok THEN Raise(r.self, "LinAlgError", r.invoked)
          ELSE
            LET L == chol.L
                L_inv == Inv(chol.L)
                Sigma_inv == MatMul(Transpose(L_inv), L_inv)
                log_det_L == LogAbsDet(L)
                log_det_K == RealScale(R(2), log_det_L)
            IN  Ok(r.self,
                   RealScale(<<-1, 2>>,
                       RealAdd(RealAdd(Real(QuadForm(Y, Sigma_inv)), log_det_K),
                               RealScale(R(N), Ln2Pi))),
                   r.invoked)

prediction_log_prob_score(self) ==
    IF self.data.test_y = None THEN Raise(self, "ValueError", {})
    ELSE
      LET r == predict_test(self) IN
      IF r.status # "ok" THEN r
      ELSE
        LET y_pred == Get(r.value).mean
            y_std == Get(r.value).std
            y_test == Get(self.data.test_y)
            N == Len(y_pred)
            z == [i \in 1..N |-> RDiv(RSub(y_pred[i], y_test[i]), y_std[i])]
            z_score_sqr == [i \in 1..N |-> RMul(z[i], z[i])]
        IN  Ok(r.self,
               RealSub(RealScale(RMul(<<-1, 2>>, R(N)), Ln2Pi),
                       RealSum([i \in 1..N |->
                           RealAdd(Real(RMul(<<1, 2>>, z_score_sqr[i])), Ln(y_std[i]))], N)),
               r.invoked)

--------------------------------------------------------------------------
(* The state: one model object, the last call made on it and its outcome,  *)
(* and two observers: how often _predict_cached ran _predict per mode, and *)
(* where the object is in its lifecycle: "constructed", "fitted" (fit      *)
(* once, nothing called before it), "refitted" (fit again, nothing called  *)
(* before the first fit) or "called_unfitted" (a method was called before  *)
(* the first fit, whatever happened since).                                *)

VARIABLES kernel_spec, data, run_settings, gp,
          training_predictions, test_predictions,
          ret, predict_calls, lifecycle

vars == <<kernel_spec, data, run_settings, gp,
          training_predictions, test_predictions,
          ret, predict_calls, lifecycle>>

Self ==
    [kernel_spec |-> kernel_spec, data |-> data, run_settings |-> run_settings,
     gp |-> gp, training_predictions |-> training_predictions,
     test_predictions |-> test_predictions]

KernelSpecs ==
    {[kind |-> "spec", num_params |-> k, theta |-> InitialTheta] : k \in 1..MaxParams}

RunSettings == {[sklean_n_restarts_optimizer |-> 0]}

TestXs == {<<2>>, <<2, 1>>, <<3, 3>>}
PredictXs == {<<2>>, <<3, 1, 2>>}
Targets == {R(0), R(1)}

\* train_x is never empty; test_x and test_y are optional
Datasets ==
    {[train_x |-> [i \in 1..n |-> i], train_y |-> [i \in 1..n |-> R(i)],
      test_x |-> tx, test_y |-> ty] :
        n \in 1..MaxN, tx \in {None} \cup {Some(x) : x \in TestXs},
        ty \in {None} \cup {Some(y) : y \in UNION {[1..k -> Targets] : k \in 1..2}}}

\* test_y, when test_x is there too, has one target per row of test_x
Constructible(d) ==
    IF d.test_x = None THEN d.test_y \in {None, Some(<<R(0)>>)}
    ELSE d.test_y # None => Len(Get(d.test_x)) = Len(Get(d.test_y))

Init ==
    /\ kernel_spec \in KernelSpecs
    /\ run_settings \in RunSettings
    /\ data \in {d \in Datasets : Constructible(d)}
    /\ gp = Construct(kernel_spec, data, run_settings).gp
    /\ training_predictions = Construct(kernel_spec, data, run_settings).training_predictions
    /\ test_predictions = Construct(kernel_spec, data, run_settings).test_predictions
    /\ ret = [op |-> "__init__", arg |-> None, status |-> "ok", value |-> None,
              invoked |-> {}]
    /\ predict_calls = [train |-> 0, test |-> 0]
    /\ lifecycle = "constructed"

Fitted == gp.kernel_ # None

\* The call op(arg) ended as r.
Call(op, arg, r) ==
    /\ kernel_spec' = r.self.kernel_spec
    /\ data' = r.self.data
    /\ run_settings' = r.self.run_settings
    /\ gp' = r.self.gp
    /\ training_predictions' = r.self.training_predictions
    /\ test_predictions' = r.self.test_predictions
    /\ ret' = [op |-> op, arg |-> arg, status |-> r.status, value |-> r.value,
               invoked |-> r.invoked]
    /\ predict_calls' = [train |-> predict_calls.train + (IF "train" \in r.invoked THEN 1 ELSE 0),
                         test |-> predict_calls.test + (IF "test" \in r.invoked THEN 1 ELSE 0)]
    /\ lifecycle' = IF op = "fit"
                    THEN (IF lifecycle = "constructed" THEN "fitted"
                          ELSE IF lifecycle = "fitted" THEN "refitted"
                          ELSE lifecycle)
                    ELSE (IF Fitted THEN lifecycle ELSE "called_unfitted")

\* r ranges over the one outcome of the call, so it is computed once
Fit == \E theta \in Thetas : \E r \in {fit(Self, theta)} : Call("fit", None, r)
LogLikelihood == \E r \in {log_likelihood(Self)} : Call("log_likelihood", None, r)
Bic == \E r \in {bic(Self)} : Call("bic", None, r)
Predict == \E x \in PredictXs : \E r \in {predict(Self, x)} : Call("predict", Some(x), r)
PredictTrain == \E r \in {predict_train(Self)} : Call("predict_train", None, r)
PredictTest == \E r \in {predict_test(Self)} : Call("predict_test", None, r)
Residuals == \E r \in {residuals(Self)} : Call("residuals", None, r)
ToSpec == \E r \in {to_spec(Self)} : Call("to_spec", None, r)
LogLikelihoodTest ==
    \E r \in {log_likelihood_test(Self)} : Call("log_likelihood_test", None, r)
PredictionLogProbScore ==
    \E r \in {prediction_log_prob_score(Self)} :
        Call("prediction_log_prob_score", None, r)

Next ==
    \/ Fit
    \/ LogLikelihood
    \/ Bic
    \/ Predict
    \/ PredictTrain
    \/ PredictTest
    \/ Residuals
    \/ ToSpec
    \/ LogLikelihoodTest
    \/ PredictionLogProbScore

Spec == Init /\ [][Next]_vars

--------------------------------------------------------------------------
(* Claims. *)

CachedOps == {"predict_train", "predict_test", "residuals",
              "log_likelihood_test", "prediction_log_prob_score"}

(* C1: _predict_cached runs _predict at most once for the training mode    *)
(* and at most once for the test mode over the object's lifetime; the      *)
(* first predict_train() (predict_test()) stores what it returns, a stored *)
(* ModelPredictions is never replaced, and every later predict_train()     *)
(* (predict_test()) returns the stored one without running _predict.       *)
C1_PredictOncePerMode ==
    /\ [](predict_calls.train <= 1 /\ predict_calls.test <= 1)
    /\ [][/\ ret'.op = "predict_train"
             => /\ ret'.status = "ok" /\ ret'.value = training_predictions'
                /\ training_predictions # None => ret'.invoked = {}
          /\ (ret'.op = "predict_test" /\ ret'.status = "ok")
             => /\ ret'.value = test_predictions'
                /\ test_predictions # None => ret'.invoked = {}
          /\ training_predictions # None => training_predictions' = training_predictions
          /\ test_predictions # None => test_predictions' = test_predictions]_vars

\* a fitted model, both modes computed once, predict_train served from the cache
C1_Witness ==
    /\ Fitted /\ lifecycle = "fitted"
    /\ ret.op = "predict_train" /\ ret.invoked = {}
    /\ predict_calls.train = 1 /\ predict_calls.test = 1

TestOps == {"predict_test", "log_likelihood_test", "prediction_log_prob_score"}
TrainingOnlyOps == {"fit", "log_likelihood", "bic", "predict", "predict_train",
                    "residuals", "to_spec"}

(* C2: with test_x = None, whatever test_y is, predict_test(),             *)
(* log_likelihood_test() and prediction_log_prob_score() raise ValueError  *)
(* and return nothing, no test predictions are ever stored, and no         *)
(* training-only method raises ValueError.                                 *)
C2_NoTestDataRaises ==
    data.test_x = None =>
        /\ ret.op \in TestOps => ret.status = "ValueError" /\ ret.value = None
        /\ ret.op \in TrainingOnlyOps => ret.status # "ValueError"
        /\ test_predictions = None

\* test_x absent but test_y present, after a test-mode score was asked for
C2_Witness ==
    /\ data.test_x = None /\ data.test_y # None /\ Fitted
    /\ ret.op = "log_likelihood_test" /\ ret.status = "ValueError"
    /\ training_predictions # None

(* C3: on a fitted model                                                   *)
(* with test_x present and test_y = None, log_likelihood_test() and        *)
(* prediction_log_prob_score() raise ValueError before any prediction is   *)
(* computed: the failing call does not run _predict and leaves             *)
(* test_predictions as it was.                                             *)
C3_MissingTestYRaisesBeforePredicting ==
    [][(/\ Fitted /\ data.test_x # None /\ data.test_y = None
        /\ ret'.op \in {"log_likelihood_test", "prediction_log_prob_score"})
       => /\ ret'.status = "ValueError"
          /\ ret'.invoked = {}
          /\ test_predictions' = test_predictions]_vars

NonFitOps == {"log_likelihood", "bic", "predict", "predict_train", "predict_test",
              "residuals", "log_likelihood_test", "prediction_log_prob_score",
              "to_spec"}

(* C4: while fit() has not been called, every scoring, prediction and      *)
(* round-trip method ends in an error: none returns a value and neither    *)
(* training_predictions nor test_predictions is populated.                 *)
C4_UnfittedCallsFail ==
    ~Fitted =>
        /\ ret.op \in NonFitOps => ret.status # "ok" /\ ret.value = None
        /\ training_predictions = None
        /\ test_predictions = None

\* The order of two reals, decided on the value with ln 2 = 0.693,
\* ln 3 = 1.099, ln 5 = 1.609 and ln(2 pi) = 1.838.
RealApprox(a) ==
    RAdd(a.q, RAdd(RMul(a.l2, <<693, 1000>>), RAdd(RMul(a.l3, <<1099, 1000>>),
        RAdd(RMul(a.l5, <<1609, 1000>>), RMul(a.lpi, <<1838, 1000>>)))))

RealLess(a, b) == a # b /\ RLess(RealApprox(a), RealApprox(b))

\* what bic() returns on this object when its spec has k free parameters
BicWith(k) == Get(bic([Self EXCEPT !.kernel_spec.num_params = k]).value)

\* k ln(n) - 2 log_likelihood, for this object's k, n and log_likelihood()
BicFormula ==
    RealSub(RealScale(R(kernel_spec.num_params), Ln(R(Len(data.train_x)))),
            RealScale(R(2), Get(log_likelihood(Self).value)))

(* C5 as stated: bic() returns k ln(n) - 2 log_likelihood() for            *)
(* k = kernel_spec.num_params() and n = the rows of train_x, and for every *)
(* n >= 1 it is strictly increasing in num_params().                       *)
C5_Original_BicIncreasingFromOneRow ==
    (ret.op = "bic" /\ ret.status = "ok") =>
        /\ ret.value = Some(BicFormula)
        /\ \A k \in 1..MaxParams :
              /\ k < kernel_spec.num_params => RealLess(BicWith(k), Get(ret.value))
              /\ kernel_spec.num_params < k => RealLess(Get(ret.value), BicWith(k))

(* C5 amended: bic() returns k ln(n) - 2 log_likelihood(); for every       *)
(* n >= 2 it is strictly increasing in num_params(), and for n = 1         *)
(* (ln 1 = 0) it is the same for every num_params().                       *)
C5_BicIncreasingInParams ==
    (ret.op = "bic" /\ ret.status = "ok") =>
        /\ ret.value = Some(BicFormula)
        /\ \A k \in 1..MaxParams :
              IF Len(data.train_x) >= 2
              THEN /\ k < kernel_spec.num_params => RealLess(BicWith(k), Get(ret.value))
                   /\ kernel_spec.num_params < k => RealLess(Get(ret.value), BicWith(k))
              ELSE BicWith(k) = Get(ret.value)

\* bic() returned on two or more rows, with a smaller parameter count to compare
C5_Witness ==
    /\ ret.op = "bic" /\ ret.status = "ok"
    /\ Len(data.train_x) >= 2 /\ kernel_spec.num_params >= 2

WellFormed(p, K) ==
    /\ Len(p.mean) = K /\ Len(p.std) = K /\ Len(p.cov) = K
    /\ \A i \in 1..K : Len(p.cov[i]) = K /\ RMul(p.std[i], p.std[i]) = p.cov[i][i]

(* C6: every ModelPredictions that predict(x), predict_train() or          *)
(* predict_test() returns, and every stored one, has mean and std of the   *)
(* length K of its input and a K x K cov with std[i]^2 = cov[i][i]; a      *)
(* stored ModelPredictions is never changed afterwards.                    *)
C6_StdIsSqrtOfCovDiagonal ==
    /\ [](/\ (ret.op = "predict" /\ ret.status = "ok")
              => WellFormed(Get(ret.value), Len(Get(ret.arg)))
          /\ (ret.op = "predict_train" /\ ret.status = "ok")
              => WellFormed(Get(ret.value), Len(data.train_x))
          /\ (ret.op = "predict_test" /\ ret.status = "ok")
              => WellFormed(Get(ret.value), Len(Get(data.test_x)))
          /\ training_predictions # None
              => WellFormed(Get(training_predictions), Len(data.train_x))
          /\ test_predictions # None
              => WellFormed(Get(test_predictions), Len(Get(data.test_x))))
    /\ [][/\ training_predictions # None => training_predictions' = training_predictions
          /\ test_predictions # None => test_predictions' = test_predictions]_vars

\* predict on three points of a fitted model with both caches stored
C6_Witness ==
    /\ Fitted /\ ret.op = "predict" /\ ret.status = "ok" /\ Len(Get(ret.arg)) = 3
    /\ training_predictions # None /\ test_predictions # None
    /\ \E i \in 1..3 : Get(ret.value).std[i] # Get(ret.value).cov[i][i]

DiagonalPositive(cov) ==
    \A i \in 1..Len(cov) :
        /\ RPos(cov[i][i])
        /\ \A j \in 1..Len(cov) : i # j => cov[i][j] = R(0)

(* C7: when the stored test covariance is diagonal with a positive         *)
(* diagonal, log_likelihood_test() and prediction_log_prob_score() both    *)
(* return, and return the same value.                                      *)
C7_ScoresAgreeOnDiagonalCov ==
    (/\ ret.op \in {"log_likelihood_test", "prediction_log_prob_score"}
     /\ data.test_y # None /\ test_predictions # None
     /\ DiagonalPositive(Get(test_predictions).cov))
    => /\ ret.status = "ok"
       /\ log_likelihood_test(Self).status = "ok"
       /\ ret.value = log_likelihood_test(Self).value
       /\ ret.value = prediction_log_prob_score(Self).value

\* the full-covariance score on two test points with unequal variances and
\* a nonzero residual
C7_Witness ==
    /\ ret.op = "log_likelihood_test" /\ ret.status = "ok" /\ Fitted
    /\ test_predictions # None /\ DiagonalPositive(Get(test_predictions).cov)
    /\ Len(Get(test_predictions).mean) = 2
    /\ Get(test_predictions).std[1] # Get(test_predictions).std[2]
    /\ Get(test_predictions).mean[1] # Get(data.test_y)[1]

\* slot changes at most from None to a value
OnlyPopulated(old, new) == new # old => old = None /\ new # None

(* C8: no call changes kernel_spec, data or run_settings; predict(x),      *)
(* log_likelihood, bic and to_spec change neither the engine nor a cache;  *)
(* predict_train and residuals change at most training_predictions, and    *)
(* only from None to a value; predict_test, log_likelihood_test and        *)
(* prediction_log_prob_score change at most test_predictions, and only     *)
(* from None to a value; fit changes the engine and neither cache.         *)
C8_CallsOnlyPopulateTheirCache ==
    [][/\ kernel_spec' = kernel_spec /\ data' = data /\ run_settings' = run_settings
       /\ ret'.op \in {"predict", "log_likelihood", "bic", "to_spec"}
          => /\ gp' = gp
             /\ training_predictions' = training_predictions
             /\ test_predictions' = test_predictions
       /\ ret'.op \in {"predict_train", "residuals"}
          => /\ gp' = gp
             /\ test_predictions' = test_predictions
             /\ OnlyPopulated(training_predictions, training_predictions')
       /\ ret'.op \in TestOps
          => /\ gp' = gp
             /\ training_predictions' = training_predictions
             /\ OnlyPopulated(test_predictions, test_predictions')
       /\ ret'.op = "fit"
          => /\ training_predictions' = training_predictions
             /\ test_predictions' = test_predictions]_vars

\* fit() has run on an object whose two caches were already stored
C8_Witness ==
    /\ ret.op = "fit" /\ Fitted
    /\ training_predictions # None /\ test_predictions # None

\* each stored ModelPredictions is what _predict computes from the engine now
CachesCurrent ==
    /\ training_predictions # None
       => training_predictions = Some(_predict(Self, data.train_x))
    /\ test_predictions # None
       => test_predictions = Some(_predict(Self, Get(data.test_x)))

(* C9 as stated, for the runs in which nothing is called before the first  *)
(* fit: in every state reached by fit, repeated fit and the cached calls,  *)
(* a populated training_predictions (test_predictions) equals what         *)
(* _predict(train_x) (_predict(test_x)) computes from the engine's current *)
(* state.                                                                  *)
C9_Original_CachesAlwaysCurrent == lifecycle # "called_unfitted" => CachesCurrent

(* C9 amended: a cache is populated with what _predict computes from the   *)
(* engine's state at that call and is never replaced afterwards, and no    *)
(* call but fit changes the engine's state: stored predictions are those   *)
(* of the engine as it was when they were stored, current until the next   *)
(* fit and kept as they are by it.                                         *)
C9_CachesCurrentUntilFit ==
    [][/\ (training_predictions = None /\ training_predictions' # None)
          => training_predictions' = Some(_predict(Self, data.train_x))
       /\ (test_predictions = None /\ test_predictions' # None)
          => test_predictions' = Some(_predict(Self, Get(data.test_x)))
       /\ training_predictions # None => training_predictions' = training_predictions
       /\ test_predictions # None => test_predictions' = test_predictions
       /\ ret'.op # "fit" => gp' = gp /\ data' = data]_vars

\* both caches stored after the one fit, and still current
C9_Witness ==
    /\ lifecycle = "fitted" /\ CachesCurrent
    /\ training_predictions # None /\ test_predictions # None
    /\ ret.op \in CachedOps /\ ret.invoked = {}

\* the call op(arg) on the object self
MethodOn(op, arg, self) ==
    CASE op = "log_likelihood" -> log_likelihood(self)
      [] op = "bic" -> bic(self)
      [] op = "predict" -> predict(self, Get(arg))
      [] op = "predict_train" -> predict_train(self)
      [] op = "predict_test" -> predict_test(self)
      [] op = "residuals" -> residuals(self)
      [] op = "to_spec" -> to_spec(self)
      [] op = "log_likelihood_test" -> log_likelihood_test(self)
      [] op = "prediction_log_prob_score" -> prediction_log_prob_score(self)

\* a second model of the same spec, dataset and settings, fitted to the same
\* engine state, on which nothing has been called since
TwinAfterFit == [Construct(kernel_spec, data, run_settings) EXCEPT !.gp = gp]

(* C10: on a model with test_x and test_y, fitted exactly once with no     *)
(* call before fit, every scoring, prediction and round-trip method ends   *)
(* as it does on a twin model fitted to the same engine state on which no  *)
(* other method was called: the outcome does not depend on the calls made  *)
(* earlier, so it is the same in any two such models.                      *)
C10_OutcomeIndependentOfEarlierCalls ==
    (/\ lifecycle = "fitted" /\ ret.op \in NonFitOps
     /\ data.test_x # None /\ data.test_y # None)
    => /\ ret.status = MethodOn(ret.op, ret.arg, TwinAfterFit).status
       /\ ret.value = MethodOn(ret.op, ret.arg, TwinAfterFit).value

\* a score served from caches that earlier calls of other methods stored
C10_Witness ==
    /\ lifecycle = "fitted" /\ data.test_x # None /\ data.test_y # None
    /\ ret.op = "prediction_log_prob_score" /\ ret.status = "ok" /\ ret.invoked = {}
    /\ training_predictions # None

====
